---------------------------- MODULE Spec2Model ----------------------------
(***************************************************************************)
(* Attention layers (fluxion/layers/attentions.py) and the cross-attention *)
(* blocks built from them (foundationals/latent_diffusion/                 *)
(* cross_attention.py), as a state machine.                                *)
(*                                                                         *)
(* A module is constructed (its __init__ runs the divisibility assertion   *)
(* and builds the children) and then called.  A forward call walks the     *)
(* flattened list of the module's layers, one layer per step.  A tensor is *)
(* its shape plus an abstract value v; a layer of the numeric library      *)
(* returns a value the model does not know, any of the call's outcomes     *)
(* (Vals in a call of CrossAttentionBlock, where values are followed; the  *)
(* other calls follow shapes only).  The context store holds the shape     *)
(* stack flatten/sizes, the entry reshape and the conditioning slot        *)
(* cross_attention_block/<context_key>.                                    *)
(***************************************************************************)
EXTENDS Integers, Sequences, FiniteSets, TLC

VARIABLES
    module,     \* the constructed module: class, configuration, layers
    store,      \* the context stores: store id -> contexts
    storeOf,    \* the store each forward pass runs on
    pass,       \* the forward passes: pass id -> call state
    lock,       \* the pass holding the serialization lock, 0 when free
    hd          \* the head split/merge harness (ScaledDotProductAttention helpers)

vars == <<module, store, storeOf, pass, lock, hd>>

-----------------------------------------------------------------------------
(* Bounds of the model *)

MaxDim == 4        \* embedding_dim / channels range over 1..MaxDim
MaxHeads == 3      \* num_heads ranges over 1..MaxHeads
MaxLayers == 3     \* num_attention_layers ranges over 1..MaxLayers
MaxSide == 2       \* height, width, sequence length range over 1..MaxSide
MaxBlocks == 2     \* CrossAttentionBlock2d blocks chained in one pass

Batches == {2}                 \* batch sizes of the inputs
CtxLens == {3}                 \* sequence length of the conditioning tensor
CtxDims == {3}                 \* context_embedding_dim
Vals == {0, 1}                 \* abstract tensor values; 0 is the all-zero tensor
Passes == {1, 2}               \* forward passes
Stores == {1, 2}               \* context stores

-----------------------------------------------------------------------------
(* Shapes.  Sequences are 1-based; the dims of the source are 0-based. *)

RECURSIVE Prod(_)
Prod(s) == IF s = <<>> THEN 1 ELSE Head(s) * Prod(Tail(s))

\* s[lo:hi] of Python, 0-based, hi exclusive
Slice(s, lo, hi) == IF hi <= lo THEN <<>> ELSE SubSeq(s, lo + 1, hi)

\* a possibly negative dim of a rank-n tensor, as torch normalises it
NormDim(d, n) == IF d >= 0 THEN d ELSE n + d

\* Tensor.transpose(d0, d1)
TransposeShape(s, d0, d1) ==
    [i \in 1..Len(s) |-> IF i = d0 + 1 THEN s[d1 + 1]
                         ELSE IF i = d1 + 1 THEN s[d0 + 1] ELSE s[i]]

\* Tensor.flatten(start_dim, end_dim)
FlattenShape(s, start_dim, end_dim) ==
    LET a == NormDim(start_dim, Len(s))
        b == NormDim(end_dim, Len(s))
    IN  Slice(s, 0, a) \o <<Prod(Slice(s, a, b + 1))>> \o Slice(s, b + 1, Len(s))

\* Tensor.unflatten(dim, sizes); defined when Prod(sizes) = s[dim]
UnflattenOK(s, dim, sizes) ==
    /\ dim < Len(s)
    /\ sizes # <<>>
    /\ Prod(sizes) = s[dim + 1]

UnflattenShape(s, dim, sizes) ==
    Slice(s, 0, dim) \o sizes \o Slice(s, dim + 1, Len(s))

\* Tensor.reshape(t) is defined when the element counts agree
ReshapeOK(s, t) == Prod(s) = Prod(t)


-----------------------------------------------------------------------------
(* ScaledDotProductAttention.split_to_multi_head / merge_multi_head: shapes *)

\* faulty variant: split_to_multi_head without its divisibility assertion
SplitDivisibleAssertSkipped(s, num_heads) == TRUE

\* the two assertions of split_to_multi_head
SplitRankAssert(s) == Len(s) = 3
SplitDivisibleAssert(s, num_heads) == s[Len(s)] % num_heads = 0

\* x.reshape(x.shape[0], x.shape[1], num_heads, x.shape[-1] // num_heads).transpose(1, 2)
SplitReshapeTarget(s, num_heads) == <<s[1], s[2], num_heads, s[3] \div num_heads>>
SplitShape(s, num_heads) == TransposeShape(SplitReshapeTarget(s, num_heads), 1, 2)

\* x.transpose(1, 2).reshape(x.shape[0], x.shape[2], num_heads * x.shape[-1])
MergeReshapeTarget(s, num_heads) == <<s[1], s[3], num_heads * s[4]>>
MergeShape(s, num_heads) == MergeReshapeTarget(s, num_heads)

\* the fused attention primitive on (batch, heads, S, d) tensors
PrimitiveOK(q, k, v) ==
    /\ Len(q) = 4 /\ Len(k) = 4 /\ Len(v) = 4
    /\ q[1] = k[1] /\ q[2] = k[2] /\ q[4] = k[4]
    /\ k[1] = v[1] /\ k[2] = v[2] /\ k[3] = v[3]
PrimitiveShape(q, k, v) == <<q[1], q[2], q[3], v[4]>>

-----------------------------------------------------------------------------
(* Layers.  A module's children, flattened in call order; a layer is       *)
(* [op, a, b, c] with a, b, c its integer arguments.                       *)

L(op, a, b, c) == [op |-> op, a |-> a, b |-> b, c |-> c]

\* `x or default` of Python on an int | None argument (None is 0 here)
OrDefault(x, default) == IF x = 0 THEN default ELSE x

\* faulty variant: the constructors without their assertion
DivisibilityAssertSkipped(dim, num_heads) == TRUE

\* the assertion opening Attention.__init__, SelfAttention2d.__init__ and
\* CrossAttentionBlock2d.__init__
DivisibilityAssert(dim, num_heads) == dim % num_heads = 0

ScaledDotProductAttentionLayers(num_heads) ==
    <<L("SplitHeads", num_heads, 0, 0),
      L("AttnPrimitive", 0, 0, 0),
      L("MergeHeads", num_heads, 0, 0)>>

AttentionLayers(embedding_dim, num_heads, key_embedding_dim, value_embedding_dim) ==
    <<L("Distribute", embedding_dim,
        OrDefault(key_embedding_dim, embedding_dim),
        OrDefault(value_embedding_dim, embedding_dim))>>
    \o ScaledDotProductAttentionLayers(num_heads)
    \o <<L("Linear", embedding_dim, embedding_dim, 0)>>

\* the result of an __init__: whether it returned, the layers of the module,
\* and the layers that had been built when it returned or raised
Raised(built) == [ok |-> FALSE, layers |-> <<>>, built |-> built]
Returned(layers) == [ok |-> TRUE, layers |-> layers, built |-> layers]

ScaledDotProductAttentionInit(num_heads) ==
    Returned(ScaledDotProductAttentionLayers(num_heads))

AttentionInit(embedding_dim, num_heads, key_embedding_dim, value_embedding_dim) ==
    IF ~DivisibilityAssert(embedding_dim, num_heads)
    THEN Raised(<<>>)
    ELSE Returned(AttentionLayers(embedding_dim, num_heads,
                                  key_embedding_dim, value_embedding_dim))

SelfAttentionInit(embedding_dim, num_heads) ==
    LET super == AttentionInit(embedding_dim, num_heads, 0, 0)
    IN  IF ~super.ok THEN super
        ELSE Returned(<<L("Parallel3", 0, 0, 0)>> \o super.layers)

SelfAttention2dInit(channels, num_heads) ==
    IF ~DivisibilityAssert(channels, num_heads)
    THEN Raised(<<>>)
    ELSE LET super == SelfAttentionInit(channels, num_heads)
         IN  IF ~super.ok THEN super
             ELSE Returned(<<L("Lambda2dToSequence", 0, 0, 0)>>
                           \o super.layers
                           \o <<L("LambdaSequenceTo2d", 0, 0, 0)>>)

\* faulty variant: the conditioning attention is the first sub-block
CrossAttentionBlockInitConditioningFirst(embedding_dim, context_embedding_dim, num_heads) ==
    LET norm == <<L("LayerNorm", embedding_dim, 0, 0)>>
        sa == SelfAttentionInit(embedding_dim, num_heads)
        ca == AttentionInit(embedding_dim, num_heads,
                            context_embedding_dim, context_embedding_dim)
        sub1 == <<L("SumIdentity", 0, 0, 0)>> \o norm \o sa.layers
                \o <<L("SumAdd", 0, 0, 0)>>
        sub2 == <<L("SumIdentity", 0, 0, 0)>> \o norm
                \o <<L("ParallelUseContext", 0, 0, 0)>> \o ca.layers
                \o <<L("SumAdd", 0, 0, 0)>>
        sub3 == <<L("SumIdentity", 0, 0, 0)>> \o norm
                \o <<L("Linear", embedding_dim, 2 * 4 * embedding_dim, 0),
                     L("GLU", 0, 0, 0),
                     L("Linear", 4 * embedding_dim, embedding_dim, 0),
                     L("SumAdd", 0, 0, 0)>>
    IN  IF ~sa.ok THEN Raised(norm \o sa.built)
        ELSE IF ~ca.ok THEN Raised(sub1 \o norm \o ca.built)
        ELSE Returned(sub2 \o sub1 \o sub3)

\* faulty variant: post-norm residuals, the identity branch of each Sum taken after
\* the LayerNorm
CrossAttentionBlockInitPostNorm(embedding_dim, context_embedding_dim, num_heads) ==
    LET norm == <<L("LayerNorm", embedding_dim, 0, 0)>>
        sa == SelfAttentionInit(embedding_dim, num_heads)
        ca == AttentionInit(embedding_dim, num_heads,
                            context_embedding_dim, context_embedding_dim)
        sub1 == norm \o <<L("SumIdentity", 0, 0, 0)>> \o sa.layers
                \o <<L("SumAdd", 0, 0, 0)>>
        sub2 == norm \o <<L("SumIdentity", 0, 0, 0)>>
                \o <<L("ParallelUseContext", 0, 0, 0)>> \o ca.layers
                \o <<L("SumAdd", 0, 0, 0)>>
        sub3 == norm \o <<L("SumIdentity", 0, 0, 0)>>
                \o <<L("Linear", embedding_dim, 2 * 4 * embedding_dim, 0),
                     L("GLU", 0, 0, 0),
                     L("Linear", 4 * embedding_dim, embedding_dim, 0),
                     L("SumAdd", 0, 0, 0)>>
    IN  IF ~sa.ok THEN Raised(norm \o sa.built)
        ELSE IF ~ca.ok THEN Raised(sub1 \o norm \o ca.built)
        ELSE Returned(sub1 \o sub2 \o sub3)

CrossAttentionBlockInit(embedding_dim, context_embedding_dim, num_heads) ==
    LET norm == <<L("LayerNorm", embedding_dim, 0, 0)>>
        sa == SelfAttentionInit(embedding_dim, num_heads)
        ca == AttentionInit(embedding_dim, num_heads,
                            context_embedding_dim, context_embedding_dim)
        sub1 == <<L("SumIdentity", 0, 0, 0)>> \o norm \o sa.layers
                \o <<L("SumAdd", 0, 0, 0)>>
        sub2 == <<L("SumIdentity", 0, 0, 0)>> \o norm
                \o <<L("ParallelUseContext", 0, 0, 0)>> \o ca.layers
                \o <<L("SumAdd", 0, 0, 0)>>
        sub3 == <<L("SumIdentity", 0, 0, 0)>> \o norm
                \o <<L("Linear", embedding_dim, 2 * 4 * embedding_dim, 0),
                     L("GLU", 0, 0, 0),
                     L("Linear", 4 * embedding_dim, embedding_dim, 0),
                     L("SumAdd", 0, 0, 0)>>
    IN  IF ~sa.ok THEN Raised(norm \o sa.built)
        ELSE IF ~ca.ok THEN Raised(sub1 \o norm \o ca.built)
        ELSE Returned(sub1 \o sub2 \o sub3)

\* StatefulFlatten(context="flatten", key="sizes", start_dim, end_dim=-1)
StatefulFlattenLayers(start_dim, end_dim) ==
    <<L("SetContextPush", start_dim, end_dim, 0),
      L("Flatten", start_dim, end_dim, 0)>>

\* faulty variant: the convolution variant without its Transpose(1, 2)
InBlockNoTranspose(channels, use_linear_projection) ==
    IF use_linear_projection
    THEN <<L("GroupNorm", channels, 0, 0)>>
         \o StatefulFlattenLayers(2, -1)
         \o <<L("Transpose", 1, 2, 0),
              L("Linear", channels, channels, 0)>>
    ELSE <<L("GroupNorm", channels, 0, 0),
           L("Conv2d", channels, channels, 0)>>
         \o StatefulFlattenLayers(2, -1)

InBlock(channels, use_linear_projection) ==
    IF use_linear_projection
    THEN <<L("GroupNorm", channels, 0, 0)>>
         \o StatefulFlattenLayers(2, -1)
         \o <<L("Transpose", 1, 2, 0),
              L("Linear", channels, channels, 0)>>
    ELSE <<L("GroupNorm", channels, 0, 0),
           L("Conv2d", channels, channels, 0)>>
         \o StatefulFlattenLayers(2, -1)
         \o <<L("Transpose", 1, 2, 0)>>

OutBlock(channels, use_linear_projection) ==
    IF use_linear_projection
    THEN <<L("Linear", channels, channels, 0),
           L("Transpose", 1, 2, 0),
           L("ParallelPop", 0, 0, 0),
           L("Unflatten", 2, 0, 0)>>
    ELSE <<L("Transpose", 1, 2, 0),
           L("ParallelPop", 0, 0, 0),
           L("Unflatten", 2, 0, 0),
           L("Conv2d", channels, channels, 0)>>

RECURSIVE Repeat(_, _)
Repeat(layers, n) == IF n = 0 THEN <<>> ELSE layers \o Repeat(layers, n - 1)

CrossAttentionBlock2dInit(channels, context_embedding_dim, num_attention_heads, num_attention_layers, use_linear_projection) ==
    IF ~DivisibilityAssert(channels, num_attention_heads)
    THEN Raised(<<>>)
    ELSE LET in_block == InBlock(channels, use_linear_projection)
             out_block == OutBlock(channels, use_linear_projection)
             block == CrossAttentionBlockInit(channels, context_embedding_dim,
                                              num_attention_heads)
         IN  IF ~block.ok THEN Raised(in_block \o out_block \o block.built)
             ELSE Returned(<<L("SumIdentity", 0, 0, 0)>>
                           \o in_block
                           \o Repeat(block.layers, num_attention_layers)
                           \o out_block
                           \o <<L("SumAdd", 0, 0, 0)>>)

\* CrossAttentionBlock2d.init_context, SelfAttention2d.init_context; cond is
\* the slot cross_attention_block/<context_key>, <<>> while never written
NoSize == 0
InitContext ==
    [sizes |-> <<>>, height |-> NoSize, width |-> NoSize, cond |-> <<>>]


-----------------------------------------------------------------------------
(* Values passed between layers *)

T(shape, v) == [kind |-> "tensor", shape |-> shape, v |-> v]
SizeValue(sizes) == [kind |-> "size", shape |-> sizes, v |-> 0]

LastDim(s) == s[Len(s)]
WithLastDim(s, d) == [s EXCEPT ![Len(s)] = d]

-----------------------------------------------------------------------------
(* Initial states: a module not yet constructed, the stores as their       *)
(* init_context seeds them, the inputs of the forward calls.               *)

Dims == 1..MaxDim
Heads == 1..MaxHeads
Sides == 1..MaxSide

NewModule(cls, dim, num_heads) ==
    [cls |-> cls, state |-> "new", layers |-> <<>>, built |-> <<>>,
     dim |-> dim, num_heads |-> num_heads,
     key_embedding_dim |-> 0, value_embedding_dim |-> 0,
     context_embedding_dim |-> 0, num_attention_layers |-> 1,
     use_linear_projection |-> FALSE, blocks |-> 1]

IdlePass ==
    [status |-> "idle", err |-> "", pc |-> 0, x |-> <<>>, saved |-> <<>>,
     input |-> <<>>, pushes |-> 0, pops |-> 0, numeric |-> 0,
     pushed |-> <<>>, popped |-> <<>>, nonzero |-> 0, outcomes |-> {1}]

\* a call on input; outcomes are the values the numeric library may return in it
PassOn(input, outcomes) == [IdlePass EXCEPT !.input = input, !.outcomes = outcomes]

NoLock == [used |-> FALSE, holder |-> 0]
NoHarness == [stage |-> "off", num_heads |-> 1, x |-> <<>>, y |-> <<>>, z |-> <<>>]

\* the store a caller hands to a pass: seeded, the conditioning tensor written or not
SeededStore(written, batch, context_len, context_embedding_dim) ==
    IF written
    THEN [InitContext EXCEPT
             !.cond = <<T(<<batch, context_len, context_embedding_dim>>, 1)>>]
    ELSE InitContext


OnePass(md, st, input, outcomes) ==
    /\ module = md
    /\ store = [s \in Stores |-> st]
    /\ storeOf = [p \in Passes |-> 1]
    /\ pass = [p \in Passes |-> IF p = 1 THEN PassOn(input, outcomes) ELSE IdlePass]
    /\ lock = NoLock
    /\ hd = NoHarness

InitScaledDotProductAttention ==
    \E num_heads \in Heads, f \in Dims, b \in Batches, n \in Sides, m \in CtxLens :
        OnePass(NewModule("ScaledDotProductAttention", 0, num_heads),
                InitContext,
                <<T(<<b, n, f>>, 1), T(<<b, m, f>>, 1), T(<<b, m, f>>, 1)>>,
                {1})

InitAttention ==
    \E dim \in Dims, num_heads \in Heads, kv \in {0} \cup CtxDims,
       b \in Batches, n \in Sides, m \in CtxLens :
        OnePass([NewModule("Attention", dim, num_heads) EXCEPT
                    !.key_embedding_dim = kv, !.value_embedding_dim = kv],
                InitContext,
                <<T(<<b, n, dim>>, 1),
                  T(<<b, m, OrDefault(kv, dim)>>, 1),
                  T(<<b, m, OrDefault(kv, dim)>>, 1)>>,
                {1})

InitSelfAttention ==
    \E dim \in Dims, num_heads \in Heads, b \in Batches, n \in Sides :
        OnePass(NewModule("SelfAttention", dim, num_heads),
                InitContext,
                <<T(<<b, n, dim>>, 1)>>,
                {1})

InitSelfAttention2d ==
    \E dim \in Dims, num_heads \in Heads, b \in Batches, h \in Sides, w \in Sides :
        OnePass(NewModule("SelfAttention2d", dim, num_heads),
                InitContext,
                <<T(<<b, dim, h, w>>, 1)>>,
                {1})

InitCrossAttentionBlock ==
    \E dim \in Dims, num_heads \in Heads, cdim \in CtxDims, m \in CtxLens,
       written \in BOOLEAN, b \in Batches, n \in Sides, v \in Vals :
        OnePass([NewModule("CrossAttentionBlock", dim, num_heads) EXCEPT
                    !.context_embedding_dim = cdim],
                SeededStore(written, b, m, cdim),
                <<T(<<b, n, dim>>, v)>>,
                Vals)

InitCrossAttentionBlock2d ==
    \E dim \in Dims, num_heads \in Heads, cdim \in CtxDims, m \in CtxLens,
       written \in BOOLEAN, layers \in 1..MaxLayers, lin \in BOOLEAN,
       b \in Batches, h \in Sides, w \in Sides :
        OnePass([NewModule("CrossAttentionBlock2d", dim, num_heads) EXCEPT
                    !.context_embedding_dim = cdim,
                    !.num_attention_layers = layers,
                    !.use_linear_projection = lin],
                SeededStore(written, b, m, cdim),
                <<T(<<b, dim, h, w>>, 1)>>,
                {1})

Init ==
    \/ InitScaledDotProductAttention
    \/ InitAttention
    \/ InitSelfAttention
    \/ InitSelfAttention2d
    \/ InitCrossAttentionBlock
    \/ InitCrossAttentionBlock2d

-----------------------------------------------------------------------------
(* Construction *)

Constructed(r) ==
    [module EXCEPT !.state = IF r.ok THEN "ready" ELSE "failed",
                   !.layers = r.layers, !.built = r.built]

Construct(cls, r) ==
    /\ module.cls = cls
    /\ module.state = "new"
    /\ module' = Constructed(r)
    /\ UNCHANGED <<store, storeOf, pass, lock, hd>>

ConstructScaledDotProductAttention ==
    Construct("ScaledDotProductAttention",
              ScaledDotProductAttentionInit(module.num_heads))

ConstructAttention ==
    Construct("Attention",
              AttentionInit(module.dim, module.num_heads,
                            module.key_embedding_dim, module.value_embedding_dim))

ConstructSelfAttention ==
    Construct("SelfAttention", SelfAttentionInit(module.dim, module.num_heads))

ConstructSelfAttention2d ==
    Construct("SelfAttention2d", SelfAttention2dInit(module.dim, module.num_heads))

ConstructCrossAttentionBlock ==
    Construct("CrossAttentionBlock",
              CrossAttentionBlockInit(module.dim, module.context_embedding_dim,
                                      module.num_heads))

ConstructCrossAttentionBlock2d ==
    Construct("CrossAttentionBlock2d",
              CrossAttentionBlock2dInit(module.dim, module.context_embedding_dim,
                                        module.num_heads, module.num_attention_layers,
                                        module.use_linear_projection))

-----------------------------------------------------------------------------
(* A forward call: one layer per step *)

Cur(p) == module.layers[pass[p].pc]
At(p, op) == pass[p].status = "running" /\ Cur(p).op = op
Ctx(p) == store[storeOf[p]]

\* the call of the current layer returned x: go on to the next layer, or return
Stepped(p, x, numeric) ==
    [pass[p] EXCEPT !.x = x,
                    !.pc = @ + 1,
                    !.numeric = @ + numeric,
                    !.status = IF pass[p].pc = Len(module.layers)
                               THEN "done" ELSE "running"]

\* the call of the current layer raised: the whole forward call is aborted
Aborted(p, err) == [pass[p] EXCEPT !.status = "failed", !.err = err]

Released(after) ==
    IF lock.used /\ after.status \in {"done", "failed"}
    THEN [lock EXCEPT !.holder = 0] ELSE lock

\* a layer that leaves the store alone; after is the pass once the layer
\* returned or raised
Layer(p, op, after) ==
    /\ At(p, op)
    /\ pass' = [pass EXCEPT ![p] = after]
    /\ lock' = Released(after)
    /\ UNCHANGED <<module, store, storeOf, hd>>

\* a layer that rewrites the pass's store when it returns
StoreLayer(p, op, after, ctx) ==
    /\ At(p, op)
    /\ pass' = [pass EXCEPT ![p] = after]
    /\ lock' = Released(after)
    /\ store' = IF after.status = "failed" THEN store
                ELSE [store EXCEPT ![storeOf[p]] = ctx]
    /\ UNCHANGED <<module, storeOf, hd>>

StartForward(p) ==
    /\ module.state = "ready"
    /\ pass[p].status = "idle"
    /\ pass[p].input # <<>>
    /\ lock.used => lock.holder = 0
    /\ pass' = [pass EXCEPT ![p] = [@ EXCEPT !.status = "running", !.pc = 1,
                                               !.x = pass[p].input]]
    /\ lock' = IF lock.used THEN [lock EXCEPT !.holder = p] ELSE lock
    /\ UNCHANGED <<module, store, storeOf, hd>>


X(p) == pass[p].x
Sh(p) == pass[p].x[1].shape

(* Layers of the numeric library: the shapes they accept and return *)

GroupNormOK(s, channels) == Len(s) >= 2 /\ s[2] = channels
Conv2dOK(s, in_channels) == Len(s) = 4 /\ s[2] = in_channels
Conv2dShape(s, out_channels) == [s EXCEPT ![2] = out_channels]
LayerNormOK(s, normalized_shape) == Len(s) >= 1 /\ LastDim(s) = normalized_shape
LinearOK(s, in_features) == Len(s) >= 1 /\ LastDim(s) = in_features
LinearShape(s, out_features) == WithLastDim(s, out_features)
GLUOK(s) == Len(s) >= 1 /\ LastDim(s) % 2 = 0
GLUShape(s) == WithLastDim(s, LastDim(s) \div 2)

GroupNorm(p) ==
    \E v \in pass[p].outcomes :
        Layer(p, "GroupNorm",
              IF Len(X(p)) = 1 /\ GroupNormOK(Sh(p), Cur(p).a)
              THEN Stepped(p, <<T(Sh(p), v)>>, 1)
              ELSE Aborted(p, "shape_error"))

Conv2d(p) ==
    \E v \in pass[p].outcomes :
        Layer(p, "Conv2d",
              IF Len(X(p)) = 1 /\ Conv2dOK(Sh(p), Cur(p).a)
              THEN Stepped(p, <<T(Conv2dShape(Sh(p), Cur(p).b), v)>>, 1)
              ELSE Aborted(p, "shape_error"))

LayerNorm(p) ==
    \E v \in pass[p].outcomes :
        Layer(p, "LayerNorm",
              IF Len(X(p)) = 1 /\ LayerNormOK(Sh(p), Cur(p).a)
              THEN Stepped(p, <<T(Sh(p), v)>>, 1)
              ELSE Aborted(p, "shape_error"))

Linear(p) ==
    \E v \in pass[p].outcomes :
        Layer(p, "Linear",
              IF Len(X(p)) = 1 /\ LinearOK(Sh(p), Cur(p).a)
              THEN Stepped(p, <<T(LinearShape(Sh(p), Cur(p).b), v)>>, 1)
              ELSE Aborted(p, "shape_error"))

GLU(p) ==
    \E v \in pass[p].outcomes :
        Layer(p, "GLU",
              IF Len(X(p)) = 1 /\ GLUOK(Sh(p))
              THEN Stepped(p, <<T(GLUShape(Sh(p)), v)>>, 1)
              ELSE Aborted(p, "assertion"))

(* Chain, Parallel, Distribute, Sum *)

\* Parallel(Identity(), Identity(), Identity()) of SelfAttention
Parallel3(p) ==
    Layer(p, "Parallel3",
          IF Len(X(p)) = 1
          THEN Stepped(p, <<X(p)[1], X(p)[1], X(p)[1]>>, 0)
          ELSE Aborted(p, "shape_error"))

\* Distribute(Linear, Linear, Linear) of Attention: child i gets input i
Distribute(p) ==
    \E vq \in pass[p].outcomes, vk \in pass[p].outcomes, vv \in pass[p].outcomes :
        Layer(p, "Distribute",
              IF /\ Len(X(p)) = 3
                 /\ LinearOK(X(p)[1].shape, Cur(p).a)
                 /\ LinearOK(X(p)[2].shape, Cur(p).b)
                 /\ LinearOK(X(p)[3].shape, Cur(p).c)
              THEN Stepped(p, <<T(LinearShape(X(p)[1].shape, Cur(p).a), vq),
                                T(LinearShape(X(p)[2].shape, Cur(p).a), vk),
                                T(LinearShape(X(p)[3].shape, Cur(p).a), vv)>>, 3)
              ELSE Aborted(p, "shape_error"))

\* Sum evaluates its first branch, Identity(): the input is kept for the addition
SumIdentity(p) ==
    Layer(p, "SumIdentity",
          [Stepped(p, X(p), 0) EXCEPT !.saved = <<X(p)[1]>> \o @])

\* Sum adds the output of its second branch to the output of the first
SumOK(a, b) == a.shape = b.shape
SumValue(a, b) == T(a.shape, a.v + b.v)

SumAdd(p) ==
    Layer(p, "SumAdd",
          IF Len(X(p)) = 1 /\ SumOK(Head(pass[p].saved), X(p)[1])
          THEN [Stepped(p, <<SumValue(Head(pass[p].saved), X(p)[1])>>, 1) EXCEPT
                   !.saved = Tail(@),
                   !.nonzero = @ + (IF X(p)[1].v = 0 THEN 0 ELSE 1)]
          ELSE Aborted(p, "shape_error"))

(* ScaledDotProductAttention.forward *)

SplitHeads(p) ==
    Layer(p, "SplitHeads",
          IF Len(X(p)) # 3 THEN Aborted(p, "shape_error")
          ELSE IF \E i \in 1..3 : ~SplitRankAssert(X(p)[i].shape)
          THEN Aborted(p, "rank_assertion")
          ELSE IF \E i \in 1..3 : ~SplitDivisibleAssert(X(p)[i].shape, Cur(p).a)
          THEN Aborted(p, "divisibility_assertion")
          ELSE IF \E i \in 1..3 : ~ReshapeOK(X(p)[i].shape,
                                             SplitReshapeTarget(X(p)[i].shape, Cur(p).a))
          THEN Aborted(p, "shape_error")
          ELSE Stepped(p, [i \in 1..3 |->
                              T(SplitShape(X(p)[i].shape, Cur(p).a), X(p)[i].v)], 0))

AttnPrimitive(p) ==
    \E v \in pass[p].outcomes :
        Layer(p, "AttnPrimitive",
              IF PrimitiveOK(X(p)[1].shape, X(p)[2].shape, X(p)[3].shape)
              THEN Stepped(p, <<T(PrimitiveShape(X(p)[1].shape, X(p)[2].shape,
                                                 X(p)[3].shape), v)>>, 1)
              ELSE Aborted(p, "shape_error"))

MergeHeads(p) ==
    Layer(p, "MergeHeads",
          IF ReshapeOK(Sh(p), MergeReshapeTarget(Sh(p), Cur(p).a))
          THEN Stepped(p, <<T(MergeShape(Sh(p), Cur(p).a), X(p)[1].v)>>, 0)
          ELSE Aborted(p, "shape_error"))

(* The context store *)

\* UseContext(context, key): the value stored under the key
UseContextOK(ctx) == ctx.cond # <<>>

\* Parallel(Identity(), UseContext(...), UseContext(...)) of CrossAttentionBlock
ParallelUseContext(p) ==
    Layer(p, "ParallelUseContext",
          IF UseContextOK(Ctx(p))
          THEN Stepped(p, <<X(p)[1], Ctx(p).cond[1], Ctx(p).cond[1]>>, 0)
          ELSE Aborted(p, "context_not_found"))

\* faulty variant: push records the whole shape, not the flattened dims
PushSliceWholeShape(s, start_dim, end_dim) == s

\* StatefulFlatten.push
PushSlice(s, start_dim, end_dim) ==
    Slice(s, start_dim, IF end_dim >= 0 THEN end_dim + 1 ELSE Len(s) + end_dim + 1)
\* faulty variant: push that appends nothing
PushNothing(sizes, s, start_dim, end_dim) == sizes
Push(sizes, s, start_dim, end_dim) == Append(sizes, PushSlice(s, start_dim, end_dim))

\* SetContext(context="flatten", key="sizes", callback=self.push)
SetContextPush(p) ==
    StoreLayer(p, "SetContextPush",
               [Stepped(p, X(p), 0) EXCEPT
                   !.pushes = @ + 1,
                   !.pushed = Append(@, PushSlice(Sh(p), Cur(p).a, Cur(p).b))],
               [Ctx(p) EXCEPT !.sizes = Push(@, Sh(p), Cur(p).a, Cur(p).b)])

Flatten(p) ==
    Layer(p, "Flatten",
          Stepped(p, <<T(FlattenShape(Sh(p), Cur(p).a, Cur(p).b), X(p)[1].v)>>, 0))

Transpose(p) ==
    Layer(p, "Transpose",
          IF Len(Sh(p)) > Cur(p).a /\ Len(Sh(p)) > Cur(p).b
          THEN Stepped(p, <<T(TransposeShape(Sh(p), Cur(p).a, Cur(p).b), X(p)[1].v)>>, 0)
          ELSE Aborted(p, "shape_error"))

\* faulty variant: x[-1] instead of x.pop(), the shape stays on the stack
PopRestKeepsTop(sizes) == sizes

\* lambda x: x.pop() on the list flatten/sizes
PopValue(sizes) == sizes[Len(sizes)]
PopRest(sizes) == SubSeq(sizes, 1, Len(sizes) - 1)

\* Parallel(Identity(), UseContext("flatten", "sizes").compose(lambda x: x.pop()))
ParallelPop(p) ==
    StoreLayer(p, "ParallelPop",
               IF Ctx(p).sizes = <<>> THEN Aborted(p, "index_error")
               ELSE [Stepped(p, <<X(p)[1], SizeValue(PopValue(Ctx(p).sizes))>>, 0) EXCEPT
                        !.pops = @ + 1,
                        !.popped = Append(@, PopValue(Ctx(p).sizes))],
               [Ctx(p) EXCEPT !.sizes = PopRest(@)])

\* Unflatten(dim)(x, sizes)
Unflatten(p) ==
    Layer(p, "Unflatten",
          IF Len(X(p)) = 2 /\ UnflattenOK(Sh(p), Cur(p).a, X(p)[2].shape)
          THEN Stepped(p, <<T(UnflattenShape(Sh(p), Cur(p).a, X(p)[2].shape),
                              X(p)[1].v)>>, 0)
          ELSE Aborted(p, "shape_error"))

(* SelfAttention2d *)

Tensor2dToSequenceShape(s) ==
    TransposeShape(<<s[1], s[2], s[Len(s) - 1] * s[Len(s)]>>, 1, 2)

\* SelfAttention2d.tensor_2d_to_sequence
Lambda2dToSequence(p) ==
    StoreLayer(p, "Lambda2dToSequence",
               IF Len(Sh(p)) >= 2
                  /\ ReshapeOK(Sh(p), <<Sh(p)[1], Sh(p)[2],
                                        Sh(p)[Len(Sh(p)) - 1] * Sh(p)[Len(Sh(p))]>>)
               THEN Stepped(p, <<T(Tensor2dToSequenceShape(Sh(p)), X(p)[1].v)>>, 0)
               ELSE Aborted(p, "shape_error"),
               [Ctx(p) EXCEPT !.height = Sh(p)[Len(Sh(p)) - 1],
                              !.width = Sh(p)[Len(Sh(p))]])

\* faulty variant: width and height exchanged
SequenceToTensor2dShapeSwapped(s, height, width) == <<s[1], s[3], width, height>>
SequenceToTensor2dShape(s, height, width) == <<s[1], s[3], height, width>>

\* SelfAttention2d.sequence_to_tensor_2d
LambdaSequenceTo2d(p) ==
    Layer(p, "LambdaSequenceTo2d",
          IF Ctx(p).height = NoSize \/ Ctx(p).width = NoSize
          THEN Aborted(p, "type_error")
          ELSE IF Len(Sh(p)) = 3
                  /\ ReshapeOK(Sh(p), SequenceToTensor2dShape(Sh(p), Ctx(p).height,
                                                              Ctx(p).width))
          THEN Stepped(p, <<T(SequenceToTensor2dShape(Sh(p), Ctx(p).height,
                                                      Ctx(p).width), X(p)[1].v)>>, 0)
          ELSE Aborted(p, "shape_error"))

-----------------------------------------------------------------------------
(* One module, one forward call *)

Forward(p) ==
    \/ StartForward(p)
    \/ GroupNorm(p)
    \/ Conv2d(p)
    \/ LayerNorm(p)
    \/ Linear(p)
    \/ GLU(p)
    \/ Parallel3(p)
    \/ Distribute(p)
    \/ SumIdentity(p)
    \/ SumAdd(p)
    \/ SplitHeads(p)
    \/ AttnPrimitive(p)
    \/ MergeHeads(p)
    \/ ParallelUseContext(p)
    \/ SetContextPush(p)
    \/ Flatten(p)
    \/ Transpose(p)
    \/ ParallelPop(p)
    \/ Unflatten(p)

Next ==
    \/ ConstructScaledDotProductAttention
    \/ ConstructAttention
    \/ ConstructSelfAttention
    \/ ConstructSelfAttention2d
    \/ ConstructCrossAttentionBlock
    \/ ConstructCrossAttentionBlock2d
    \/ Forward(1)
    \/ Lambda2dToSequence(1)
    \/ LambdaSequenceTo2d(1)

Spec == Init /\ [][Next]_vars


-----------------------------------------------------------------------------
(* Properties of one forward call (Spec) *)

P1 == pass[1]
Ended(p) == pass[p].status \in {"done", "failed"}
Is(cls) == module.cls = cls
Written(p) == Ctx(p).cond # <<>>
InputShape(p) == pass[p].input[1].shape

\* the layers that have returned so far in the call of pass p
Executed(p) == SubSeq(module.layers, 1, pass[p].pc - 1)
Count(layers, op) == Cardinality({i \in 1..Len(layers) : layers[i].op = op})
FirstIndex(layers, op) ==
    CHOOSE i \in 1..Len(layers) :
        layers[i].op = op /\ \A j \in 1..(i - 1) : layers[j].op # op

InBlockEnd == 1 + Len(InBlock(module.dim, module.use_linear_projection))
BlockLen ==
    Len(CrossAttentionBlockInit(module.dim, module.context_embedding_dim,
                                module.num_heads).layers)
SequenceShape(s) == <<s[1], s[3] * s[4], s[2]>>

C2_OutputShapeIsInputShape ==
    (Is("CrossAttentionBlock2d") /\ module.state = "ready" /\ Written(1)) =>
        /\ P1.status # "failed"
        /\ (P1.status = "running" /\
            \E k \in 0..module.num_attention_layers :
                P1.pc = InBlockEnd + k * BlockLen + 1)
              => Sh(1) = SequenceShape(InputShape(1))
        /\ (P1.status = "running" /\ P1.pc = Len(module.layers))
              => Sh(1) = InputShape(1)
        /\ P1.status = "done" => Len(X(1)) = 1 /\ Sh(1) = InputShape(1)

C2_Witness ==
    /\ Is("CrossAttentionBlock2d")
    /\ P1.status = "done"
    /\ module.num_attention_layers = 3
    /\ ~module.use_linear_projection
    /\ InputShape(1)[3] # InputShape(1)[4]
    /\ module.num_heads > 1
    /\ Sh(1) = InputShape(1)


\* C3 as claimed: a forward call of CrossAttentionBlock or
\* CrossAttentionBlock2d whose conditioning slot was never written fails with
\* a context-not-found error before any numeric computation has been executed
\* in the call.
HasConditioning == Is("CrossAttentionBlock") \/ Is("CrossAttentionBlock2d")

C3_FailsBeforeAnyNumericComputation ==
    (HasConditioning /\ ~Written(1) /\ P1.status = "failed") =>
        /\ P1.err = "context_not_found"
        /\ P1.numeric = 0

\* C3 as amended: such a call never returns; it fails with a context-not-found
\* error at the first conditioning read, the Parallel of the second sub-block
\* of the first CrossAttentionBlock, so that no layer after that read is
\* executed (no conditioning attention, no feed-forward); the layers before
\* the read have been executed: the LayerNorm, the self-attention and the
\* addition of the first sub-block and the LayerNorm of the second (after the
\* in-projection, in CrossAttentionBlock2d).
C3_FailsAtFirstConditioningRead ==
    (HasConditioning /\ ~Written(1) /\ module.state = "ready") =>
        /\ P1.status # "done"
        /\ P1.status = "running" =>
              P1.pc <= FirstIndex(module.layers, "ParallelUseContext")
        /\ P1.status = "failed" =>
              /\ P1.err = "context_not_found"
              /\ P1.pc = FirstIndex(module.layers, "ParallelUseContext")
              /\ Count(Executed(1), "AttnPrimitive") = 1
              /\ Count(Executed(1), "SumAdd") = 1
              /\ Count(Executed(1), "LayerNorm") = 2
              /\ Count(Executed(1), "GLU") = 0
              /\ P1.numeric > 0

C3_Witness ==
    /\ Is("CrossAttentionBlock2d")
    /\ ~Written(1)
    /\ P1.status = "failed"
    /\ P1.err = "context_not_found"
    /\ P1.numeric > 0

\* C4: for every (E, H) with E % H # 0 the construction of Attention,
\* SelfAttention, SelfAttention2d and CrossAttentionBlock2d fails before any
\* child layer is built, and no forward call is ever made on the module; for
\* E % H = 0 the construction returns.
ChecksDivisibilityFirst ==
    module.cls \in {"Attention", "SelfAttention", "SelfAttention2d",
                    "CrossAttentionBlock2d"}

C4_ConstructionChecksDivisibility ==
    (ChecksDivisibilityFirst /\ module.state # "new") =>
        /\ module.dim % module.num_heads # 0 =>
              /\ module.state = "failed"
              /\ module.layers = <<>>
              /\ module.built = <<>>
              /\ \A p \in Passes : pass[p].status = "idle"
        /\ module.dim % module.num_heads = 0 =>
              /\ module.state = "ready"
              /\ module.layers # <<>>

C4_Witness ==
    /\ Is("SelfAttention2d")
    /\ module.state = "failed"
    /\ module.dim % module.num_heads # 0
    /\ module.dim > module.num_heads
    /\ module.built = <<>>

\* C7: a forward call of CrossAttentionBlock runs three residual sub-blocks in
\* sequence, each adding the output of its transform branch to the sub-block's
\* own input: the value returned is the input plus the three branch outputs,
\* and when the three branches return all-zero tensors it is the input itself.
C7_ResidualSum ==
    Is("CrossAttentionBlock") =>
        /\ Len(P1.saved) <= 1
        /\ P1.status = "done" =>
              /\ Count(module.layers, "SumIdentity") = 3
              /\ Count(module.layers, "SumAdd") = 3
              /\ Sh(1) = InputShape(1)
              /\ X(1)[1].v = P1.input[1].v + P1.nonzero
              /\ P1.nonzero = 0 => X(1) = P1.input

C7_Witness ==
    /\ Is("CrossAttentionBlock")
    /\ P1.status = "done"
    /\ P1.nonzero = 0
    /\ P1.input[1].v = 1
    /\ X(1) = P1.input

\* C8: a forward call of SelfAttention2d on (batch, channels, height, width)
\* first flattens to (batch, height*width, channels), recording height and
\* width in the context entry reshape, and last restores (batch, channels,
\* height, width) from the height and width recorded in the same call; the
\* recording layer is the first of the chain, before the three-way Parallel,
\* and the restoring layer is the last.
C8_SelfAttention2dReshape ==
    (Is("SelfAttention2d") /\ module.state = "ready") =>
        /\ module.layers[1].op = "Lambda2dToSequence"
        /\ module.layers[2].op = "Parallel3"
        /\ module.layers[Len(module.layers)].op = "LambdaSequenceTo2d"
        /\ Count(module.layers, "Lambda2dToSequence") = 1
        /\ Count(module.layers, "LambdaSequenceTo2d") = 1
        /\ P1.status # "failed"
        /\ (P1.status = "running" /\ P1.pc = 1) =>
              Ctx(1).height = NoSize /\ Ctx(1).width = NoSize
        /\ (P1.status = "running" /\ P1.pc = 2) =>
              Sh(1) = SequenceShape(InputShape(1))
        /\ (P1.status \in {"running", "done"} /\ P1.pc >= 2) =>
              /\ Ctx(1).height = InputShape(1)[3]
              /\ Ctx(1).width = InputShape(1)[4]
        /\ P1.status = "done" => Len(X(1)) = 1 /\ Sh(1) = InputShape(1)

C8_Witness ==
    /\ Is("SelfAttention2d")
    /\ P1.status = "done"
    /\ InputShape(1)[3] # InputShape(1)[4]
    /\ module.num_heads > 1
    /\ Sh(1) = InputShape(1)

\* C10 as claimed: the divisibility of the feature dimension by num_heads is
\* checked at construction and never at call time: no forward call fails on it.
C10_NoCallTimeDivisibilityCheck ==
    \A p \in Passes : pass[p].err # "divisibility_assertion"

\* C10 as amended: Attention, SelfAttention2d and CrossAttentionBlock2d check
\* the divisibility at construction, and in a forward call of a module built
\* from them the check that split_to_multi_head repeats never fails; a
\* ScaledDotProductAttention has no check at construction, and its forward
\* call fails in split_to_multi_head, at call time, exactly when the feature
\* dimension of its input is not divisible by num_heads.
C10_DivisibilityCheckedAtCallTimeToo ==
    /\ \A p \in Passes :
          pass[p].err = "divisibility_assertion" =>
              /\ Is("ScaledDotProductAttention")
              /\ Cur(p).op = "SplitHeads"
              /\ LastDim(InputShape(p)) % module.num_heads # 0
    /\ (Is("ScaledDotProductAttention") /\ Ended(1)) =>
          IF LastDim(InputShape(1)) % module.num_heads # 0
          THEN P1.status = "failed" /\ P1.err = "divisibility_assertion"
               /\ P1.pc = 1
          ELSE P1.status = "done" /\ Sh(1) = InputShape(1)
    /\ (~Is("ScaledDotProductAttention") /\ module.state = "ready") =>
          module.dim % module.num_heads = 0

C10_Witness ==
    /\ Is("ScaledDotProductAttention")
    /\ P1.status = "failed"
    /\ P1.err = "divisibility_assertion"
    /\ LastDim(InputShape(1)) > module.num_heads


-----------------------------------------------------------------------------
(* Several CrossAttentionBlock2d blocks in one forward call, on one store  *)
(* (SpecChain).  Between two blocks a layer resamples the feature map, so  *)
(* that the blocks flatten different spatial shapes.                       *)

RECURSIVE ChainLayers(_, _)
ChainLayers(block, n) ==
    IF n <= 1 THEN block
    ELSE block \o <<L("Resample", 0, 0, 0)>> \o ChainLayers(block, n - 1)

ChainInit(blocks, channels, context_embedding_dim, num_attention_heads, num_attention_layers, use_linear_projection) ==
    LET block == CrossAttentionBlock2dInit(channels, context_embedding_dim,
                                           num_attention_heads, num_attention_layers,
                                           use_linear_projection)
    IN  IF ~block.ok THEN Raised(block.built)
        ELSE Returned(ChainLayers(block.layers, blocks))

ConstructChain ==
    Construct("Chain",
              ChainInit(module.blocks, module.dim, module.context_embedding_dim,
                        module.num_heads, module.num_attention_layers,
                        module.use_linear_projection))

\* a layer between two blocks that changes height and width
Resample(p) ==
    \E h \in Sides, w \in Sides :
        Layer(p, "Resample",
              IF Len(X(p)) = 1 /\ Len(Sh(p)) = 4
              THEN Stepped(p, <<T(<<Sh(p)[1], Sh(p)[2], h, w>>, X(p)[1].v)>>, 1)
              ELSE Aborted(p, "shape_error"))

InitChain ==
    \E blocks \in 1..MaxBlocks, dim \in {MaxDim}, num_heads \in Heads,
       cdim \in CtxDims, m \in CtxLens, lin \in BOOLEAN,
       b \in Batches, h \in Sides, w \in Sides :
        OnePass([NewModule("Chain", dim, num_heads) EXCEPT
                    !.context_embedding_dim = cdim,
                    !.use_linear_projection = lin,
                    !.blocks = blocks],
                SeededStore(TRUE, b, m, cdim),
                <<T(<<b, dim, h, w>>, 1)>>,
                {1})

NextChain ==
    \/ ConstructChain
    \/ Forward(1)
    \/ Resample(1)

SpecChain == InitChain /\ [][NextChain]_vars

\* the (height, width) of the input of the block the call is in
BlockInput(p) == pass[p].saved[Len(pass[p].saved)]
Spatial(s) == <<s[3], s[4]>>

-----------------------------------------------------------------------------
(* Two forward calls of one CrossAttentionBlock2d on inputs of different   *)
(* spatial shapes, their layers interleaved (SpecShared).  Each call has   *)
(* its own store or both have the same one, and the calls are serialized   *)
(* by a lock or not.                                                       *)

InitShared ==
    \E lin \in BOOLEAN, cdim \in CtxDims, m \in CtxLens, b \in Batches,
       h1 \in Sides, w1 \in Sides, h2 \in Sides, w2 \in Sides,
       shared \in BOOLEAN, serialized \in BOOLEAN :
        /\ h1 < h2 \/ (h1 = h2 /\ w1 < w2)
        /\ module = [NewModule("CrossAttentionBlock2d", MaxDim, 1) EXCEPT
                        !.context_embedding_dim = cdim,
                        !.use_linear_projection = lin]
        /\ store = [s \in Stores |-> SeededStore(TRUE, b, m, cdim)]
        /\ storeOf = [p \in Passes |-> IF shared THEN 1 ELSE p]
        /\ pass = [p \in Passes |->
                      PassOn(<<T(IF p = 1 THEN <<b, MaxDim, h1, w1>>
                                 ELSE <<b, MaxDim, h2, w2>>, 1)>>, {1})]
        /\ lock = [used |-> serialized, holder |-> 0]
        /\ hd = NoHarness

NextShared ==
    \/ ConstructCrossAttentionBlock2d
    \/ \E p \in Passes : Forward(p)

SpecShared == InitShared /\ [][NextShared]_vars

SharedStore == \E p \in Passes, q \in Passes : p # q /\ storeOf[p] = storeOf[q]
Prefix(a, b) == Len(a) <= Len(b) /\ a = SubSeq(b, 1, Len(a))

\* C6, separate stores: when each of the two calls has its own store, or the calls are
\* serialized, then under every interleaving each call's pop returns the shape
\* the same call pushed, no call fails, each call returns a tensor of the shape
\* of its input, and the stacks are empty once both have returned.
C6_IsolatedStoresKeepShapes ==
    (~SharedStore \/ lock.used) =>
        /\ \A p \in Passes :
              /\ Prefix(pass[p].popped, pass[p].pushed)
              /\ pass[p].status # "failed"
              /\ pass[p].status = "done" => pass[p].x[1].shape = InputShape(p)
        /\ (\A p \in Passes : pass[p].status = "done") =>
              \A s \in Stores : store[s].sizes = <<>>

\* C6, the shared store: with one store and no serialization a call pops a
\* shape that a call on that store pushed, its own or the other's
C6_SharedStoreMixesShapes ==
    (SharedStore /\ ~lock.used) =>
        \A p \in Passes : \A i \in 1..Len(pass[p].popped) :
            \E q \in Passes : \E j \in 1..Len(pass[q].pushed) :
                pass[p].popped[i] = pass[q].pushed[j]

\* C6: two forward calls of CrossAttentionBlock2d on inputs of different
\* spatial shapes keep their shapes apart under every interleaving when each
\* has its own store or the calls are serialized; on one shared, unserialized
\* store a call's pop returns a shape pushed on that store, which may be the
\* other call's.
C6_StoreNotSharedConcurrently ==
    C6_IsolatedStoresKeepShapes /\ C6_SharedStoreMixesShapes

\* C6: a state of the shared, unserialized store in which a call has popped the
\* shape the other call pushed.
C6_SharedStoreCorrupted ==
    /\ SharedStore /\ ~lock.used
    /\ \E p \in Passes, q \in Passes :
          /\ p # q
          /\ pass[p].popped # <<>> /\ pass[p].pushed # <<>> /\ pass[q].pushed # <<>>
          /\ pass[p].popped[1] # pass[p].pushed[1]
          /\ pass[p].popped[1] = pass[q].pushed[1]


-----------------------------------------------------------------------------
(* split_to_multi_head and merge_multi_head on tensors with their elements *)
(* (SpecHeads).  A tensor is its shape and its elements in row-major order.*)

HeadBatches == {1, 2}

RECURSIVE Ravel(_, _)
\* the row-major offset of the 0-based index idx in a tensor of shape s
Ravel(idx, s) ==
    IF s = <<>> THEN 0
    ELSE Ravel(SubSeq(idx, 1, Len(s) - 1), SubSeq(s, 1, Len(s) - 1)) * s[Len(s)]
         + idx[Len(s)]

\* the 0-based index at row-major offset k of a tensor of shape s
Unravel(k, s) ==
    [i \in 1..Len(s) |-> (k \div Prod(SubSeq(s, i + 1, Len(s)))) % s[i]]

\* Tensor.reshape(target): the elements keep their row-major order
TensorReshape(t, target) == [shape |-> target, data |-> t.data]

\* Tensor.transpose(d0, d1): element idx of the result is the element of t at
\* idx with its d0-th and d1-th coordinates exchanged
TensorTranspose(t, d0, d1) ==
    LET ns == TransposeShape(t.shape, d0, d1)
    IN  [shape |-> ns,
         data |-> [k \in 1..Len(t.data) |->
                      t.data[Ravel(TransposeShape(Unravel(k - 1, ns), d0, d1),
                                   t.shape) + 1]]]

SplitToMultiHead(t, num_heads) ==
    TensorTranspose(TensorReshape(t, SplitReshapeTarget(t.shape, num_heads)), 1, 2)

\* faulty variant: merge_multi_head without its transpose(1, 2)
MergeMultiHeadNoTranspose(t, num_heads) ==
    TensorReshape(t, MergeReshapeTarget(t.shape, num_heads))

MergeMultiHead(t, num_heads) ==
    TensorReshape(TensorTranspose(t, 1, 2), MergeReshapeTarget(t.shape, num_heads))

\* the element patterns the inputs are drawn from
DataOf(n) ==
    {[i \in 1..n |-> i], [i \in 1..n |-> n - i], [i \in 1..n |-> i % 2]}

InitHeads ==
    /\ module = NewModule("ScaledDotProductAttention", 0, 1)
    /\ store = [s \in Stores |-> InitContext]
    /\ storeOf = [p \in Passes |-> 1]
    /\ pass = [p \in Passes |-> IdlePass]
    /\ lock = NoLock
    /\ \E num_heads \in Heads, b \in HeadBatches, n \in Sides, e \in Dims :
          \E data \in DataOf(b * n * e) :
              hd = [stage |-> "input", num_heads |-> num_heads,
                    x |-> [shape |-> <<b, n, e>>, data |-> data],
                    y |-> <<>>, z |-> <<>>]

SplitToMultiHeadCall ==
    /\ hd.stage = "input"
    /\ hd' = IF SplitRankAssert(hd.x.shape)
                /\ SplitDivisibleAssert(hd.x.shape, hd.num_heads)
             THEN [hd EXCEPT !.stage = "split",
                             !.y = SplitToMultiHead(hd.x, hd.num_heads)]
             ELSE [hd EXCEPT !.stage = "failed"]
    /\ UNCHANGED <<module, store, storeOf, pass, lock>>

MergeMultiHeadCall ==
    /\ hd.stage = "split"
    /\ hd' = IF ReshapeOK(hd.y.shape, MergeReshapeTarget(hd.y.shape, hd.num_heads))
             THEN [hd EXCEPT !.stage = "merged",
                             !.z = MergeMultiHead(hd.y, hd.num_heads)]
             ELSE [hd EXCEPT !.stage = "failed"]
    /\ UNCHANGED <<module, store, storeOf, pass, lock>>

NextHeads ==
    \/ SplitToMultiHeadCall
    \/ MergeMultiHeadCall

SpecHeads == InitHeads /\ [][NextHeads]_vars

At4(t, b, h, n, d) == t.data[Ravel(<<b, h, n, d>>, t.shape) + 1]
At3(t, b, n, e) == t.data[Ravel(<<b, n, e>>, t.shape) + 1]

\* C5: for E % H = 0 and x of shape (B,S,E), split_to_multi_head(x) has shape
\* (B,H,S,E/H), its element (b,h,s,d) being the element (b,s,h*(E/H)+d) of x,
\* and merge_multi_head of it has shape (B,S,E) and is x element for element.
C5_MergeInvertsSplit ==
    LET b == hd.x.shape[1]
        n == hd.x.shape[2]
        e == hd.x.shape[3]
        heads_dim == e \div hd.num_heads
    IN  /\ hd.stage # "input" => ((e % hd.num_heads = 0) = (hd.stage # "failed"))
        /\ hd.stage \in {"split", "merged"} =>
              /\ hd.y.shape = <<b, hd.num_heads, n, heads_dim>>
              /\ Len(hd.y.data) = b * n * e
              /\ \A i \in 0..(b - 1), h \in 0..(hd.num_heads - 1),
                    j \in 0..(n - 1), d \in 0..(heads_dim - 1) :
                     At4(hd.y, i, h, j, d) = At3(hd.x, i, j, h * heads_dim + d)
        /\ hd.stage = "merged" =>
              /\ hd.z.shape = <<b, n, e>>
              /\ hd.z.data = hd.x.data
              /\ hd.z = hd.x

C5_Witness ==
    /\ hd.stage = "merged"
    /\ hd.num_heads > 1
    /\ hd.x.shape[2] > 1
    /\ hd.x.shape[3] > hd.num_heads
    /\ hd.x.data[1] # hd.x.data[2]
    /\ hd.y.data # hd.x.data
    /\ hd.z = hd.x

=============================================================================
